---------------------------- MODULE Spec2Model ----------------------------
(***************************************************************************)
(* A model of the TeenShare / SafeShare privacy scanner back end:          *)
(*   src/BackEnd/pii_scanner.py   recognizers, risk score, masking         *)
(*   src/BackEnd/backend_main.py  the /api/scan handler                    *)
(*                                                                         *)
(* Text is a TLA+ string.  Positions inside the matcher are 1-based        *)
(* ("the next character to read"); the start/end stored in a finding are   *)
(* Python's 0-based half-open offsets, as match.start()/match.end() give.  *)
(***************************************************************************)
EXTENDS Integers, Sequences, FiniteSets, TLC

VARIABLES
    text,            \* request.text_content / original_text
    filler,          \* further characters of the request beyond `text` (not PII)
    found_entities,  \* the list scan_text_for_pii builds
    risk_level,      \* calculate_risk_level's first result
    risk_score,      \* calculate_risk_level's second result
    sorted_entities, \* mask_sensitive_data: the findings still to process
    masked_text,     \* mask_sensitive_data: the working string
    card_valid,      \* the result of the last luhn_check call
    pc               \* the position of the running call

vars == <<text, filler, found_entities, risk_level, risk_score,
          sorted_entities, masked_text, card_valid, pc>>

----------------------------------------------------------------------------
(* Characters and character classes (the ASCII part of Python's classes).  *)

UpperChars == "ABCDEFGHIJKLMNOPQRSTUVWXYZ"
LowerChars == "abcdefghijklmnopqrstuvwxyz"
DigitChars == "0123456789"

At(s, i) == SubSeq(s, i, i)

CharsOf(s) == {At(s, k) : k \in 1..Len(s)}

Upper == CharsOf(UpperChars)
Lower == CharsOf(LowerChars)
Digit == CharsOf(DigitChars)
Space == {" ", "\t", "\n"}
Word  == Upper \cup Lower \cup Digit \cup {"_"}

\* str.lower / str.upper on one character, as re.IGNORECASE folds it
SwapCase(c) ==
    IF c \in Upper
    THEN At(LowerChars, CHOOSE k \in 1..26 : At(UpperChars, k) = c)
    ELSE IF c \in Lower
    THEN At(UpperChars, CHOOSE k \in 1..26 : At(LowerChars, k) = c)
    ELSE c

\* int(d) for a one-digit string
DigitVal(c) == (CHOOSE k \in 1..10 : At(DigitChars, k) = c) - 1

----------------------------------------------------------------------------
(* Regular expressions.  A pattern is a sequence of nodes; Match is the    *)
(* backtracking matcher of Python's re: greedy quantifiers, alternatives   *)
(* tried left to right, the first complete match wins.                     *)

Set(S)          == [t |-> "set", s |-> S]
Ch(c)           == [t |-> "set", s |-> {c}]
Bnd             == [t |-> "b"]
Rep(r, lo, hi)  == [t |-> "rep", r |-> r, lo |-> lo, hi |-> hi]   \* hi = -1: unbounded
Opt(r)          == Rep(r, 0, 1)
Plus(r)         == Rep(r, 1, -1)
Cat(rs)         == [t |-> "cat", rs |-> rs]
Alt(rs)         == [t |-> "alt", rs |-> rs]

RECURSIVE Lit(_)
Lit(w) == IF w = "" THEN <<>> ELSE <<Ch(Head(w))>> \o Lit(Tail(w))
Str(w) == Cat(Lit(w))

IsWordAt(s, i) == i >= 1 /\ i <= Len(s) /\ At(s, i) \in Word

\* \b between the characters i-1 and i
AtBoundary(s, i) == IsWordAt(s, i - 1) # IsWordAt(s, i)

CharIn(c, S, ic) == c \in S \/ (ic /\ SwapCase(c) \in S)

Dec(n) == IF n > 0 THEN n - 1 ELSE n

\* The position after the match of the node list rs at position i, 0 if none.
RECURSIVE Match(_, _, _, _)
Match(rs, s, i, ic) ==
    IF rs = <<>> THEN i
    ELSE LET h == Head(rs)
             rest == Tail(rs)
         IN CASE h.t = "set" ->
                    IF i <= Len(s) /\ CharIn(At(s, i), h.s, ic)
                    THEN Match(rest, s, i + 1, ic) ELSE 0
              [] h.t = "b" ->
                    IF AtBoundary(s, i) THEN Match(rest, s, i, ic) ELSE 0
              [] h.t = "cat" -> Match(h.rs \o rest, s, i, ic)
              [] h.t = "alt" ->
                    IF h.rs = <<>> THEN 0
                    ELSE LET first == Match(<<Head(h.rs)>> \o rest, s, i, ic)
                         IN IF first # 0 THEN first
                            ELSE Match(<<Alt(Tail(h.rs))>> \o rest, s, i, ic)
              [] h.t = "rep" ->
                    IF h.hi = 0 THEN Match(rest, s, i, ic)
                    ELSE LET more == Match(<<h.r, Rep(h.r, Dec(h.lo), Dec(h.hi))>> \o rest,
                                           s, i, ic)
                         IN IF more # 0 THEN more
                            ELSE IF h.lo = 0 THEN Match(rest, s, i, ic) ELSE 0

\* re.finditer: the matches from position i on, leftmost first, not overlapping,
\* each as its 0-based [start, end) and its group()
RECURSIVE FindFrom(_, _, _, _)
FindFrom(pat, s, i, ic) ==
    IF i > Len(s) THEN <<>>
    ELSE LET e == Match(pat, s, i, ic)
         IN IF e = 0 THEN FindFrom(pat, s, i + 1, ic)
            ELSE <<[start |-> i - 1, end |-> e - 1, group |-> SubSeq(s, i, e - 1)]>>
                 \o FindFrom(pat, s, IF e > i THEN e ELSE i + 1, ic)

finditer(pat, s, ic) == FindFrom(pat, s, 1, ic)

\* re.sub(r'\D', '', s)
RECURSIVE DigitsOnly(_)
DigitsOnly(s) ==
    IF s = "" THEN ""
    ELSE (IF Head(s) \in Digit THEN Head(s) ELSE "") \o DigitsOnly(Tail(s))

\* str.strip()
RECURSIVE LStrip(_)
LStrip(s) == IF s # "" /\ Head(s) \in Space THEN LStrip(Tail(s)) ELSE s
RECURSIVE RStrip(_)
RStrip(s) ==
    IF s # "" /\ At(s, Len(s)) \in Space THEN RStrip(SubSeq(s, 1, Len(s) - 1)) ELSE s
Strip(s) == RStrip(LStrip(s))

\* sep in s, for a one-character sep
Contains(s, c) == \E k \in 1..Len(s) : At(s, k) = c

\* s.split(sep)[-1]: what follows the last sep (all of s when there is none)
RECURSIVE LastField(_, _)
LastField(s, sep) ==
    IF s = "" THEN ""
    ELSE IF At(s, Len(s)) = sep THEN ""
    ELSE LastField(SubSeq(s, 1, Len(s) - 1), sep) \o At(s, Len(s))

\* int(s) accepts an optional sign and then digits only (no blanks arise here)
IsIntLiteral(s) ==
    LET body == IF s # "" /\ Head(s) \in {"+", "-"} THEN Tail(s) ELSE s
    IN body # "" /\ \A k \in 1..Len(body) : At(body, k) \in Digit

RECURSIVE NatOf(_)
NatOf(s) == IF s = "" THEN 0 ELSE 10 * NatOf(SubSeq(s, 1, Len(s) - 1)) + DigitVal(At(s, Len(s)))

\* int(s), for an s that IsIntLiteral
IntOf(s) ==
    IF Head(s) = "-" THEN 0 - NatOf(Tail(s))
    ELSE IF Head(s) = "+" THEN NatOf(Tail(s)) ELSE NatOf(s)

----------------------------------------------------------------------------
(* The pattern library.                                                    *)

D(n) == Rep(Set(Digit), n, n)
PhoneSep == Opt(Set({"-", "."} \cup Space))
CardSep  == Opt(Set({"-"} \cup Space))

SSN_PATTERN == <<Bnd, D(3), Opt(Ch("-")), D(2), Opt(Ch("-")), D(4), Bnd>>

PHONE_PATTERN ==
    <<Bnd,
      Opt(Cat(<<Opt(Ch("+")), Ch("1"), PhoneSep>>)),
      Opt(Cat(<<Opt(Ch("(")), D(3), Opt(Ch(")")), PhoneSep>>)),
      D(3), PhoneSep, D(4), Bnd>>

EMAIL_PATTERN ==
    <<Bnd,
      Plus(Set(Upper \cup Lower \cup Digit \cup {".", "_", "%", "+", "-"})),
      Ch("@"),
      Plus(Set(Upper \cup Lower \cup Digit \cup {".", "-"})),
      Ch("."),
      Rep(Set(Upper \cup Lower \cup {"|"}), 2, -1),
      Bnd>>

CREDIT_CARD_PATTERN ==
    <<Bnd, D(4), CardSep, D(4), CardSep, D(4), CardSep, Rep(Set(Digit), 3, 4), Bnd>>

DOB_PATTERN ==
    <<Bnd,
      Alt(<<Cat(<<Opt(Ch("0")), Set(Digit \ {"0"})>>),
            Cat(<<Ch("1"), Set({"0", "1", "2"})>>)>>),
      Set({"-", "/"}),
      Alt(<<Cat(<<Opt(Ch("0")), Set(Digit \ {"0"})>>),
            Cat(<<Set({"1", "2"}), Set(Digit)>>),
            Cat(<<Ch("3"), Set({"0", "1"})>>)>>),
      Set({"-", "/"}),
      Alt(<<Str("19"), Str("20")>>),
      D(2),
      Bnd>>

DRIVERS_LICENSE_PATTERN == <<Bnd, Rep(Set(Upper), 1, 2), Rep(Set(Digit), 6, 8), Bnd>>

ZIP_PATTERN == <<Bnd, D(5), Opt(Cat(<<Ch("-"), D(4)>>)), Bnd>>

name_pattern ==
    <<Bnd, Set(Upper), Plus(Set(Lower)), Plus(Set(Space)),
      Set(Upper), Plus(Set(Lower)), Bnd>>

address_pattern ==
    <<Bnd, Plus(Set(Digit)), Plus(Set(Space)), Set(Upper), Plus(Set(Lower)),
      Plus(Set(Space)),
      Alt(<<Str("Street"), Str("St"), Str("Avenue"), Str("Ave"), Str("Road"),
            Str("Rd"), Str("Drive"), Str("Dr"), Str("Lane"), Str("Ln"),
            Str("Boulevard"), Str("Blvd"), Str("Court"), Str("Ct"), Str("Way")>>),
      Bnd>>

----------------------------------------------------------------------------
(* The recognizers.  A finding is the dict the code appends.               *)

Entity(type, value, m, risk) ==
    [type |-> type, value |-> value, start |-> m.start, end |-> m.end, risk |-> risk]

\* a faulty variant: any digit string passes
SsnAcceptedAny(ssn) == Cardinality(CharsOf(DigitsOnly(ssn))) >= 1

\* Basic validation - not all same digit: len(set(digits_only)) > 1
SsnAccepted(ssn) == Cardinality(CharsOf(DigitsOnly(ssn))) > 1

find_social_security_numbers(t) ==
    LET ok(m) == SsnAccepted(m.group)
        ms == SelectSeq(finditer(SSN_PATTERN, t, FALSE), ok)
    IN [k \in 1..Len(ms) |-> Entity("ssn", ms[k].group, ms[k], "critical")]

\* Must be 10 or 11 digits (with country code)
PhoneAccepted(phone) ==
    Len(DigitsOnly(phone)) >= 10 /\ Len(DigitsOnly(phone)) <= 11

\* a faulty variant: the finding keeps the digits of the match instead of the match
find_phone_numbers_digits(t) ==
    LET ok(m) == PhoneAccepted(m.group)
        ms == SelectSeq(finditer(PHONE_PATTERN, t, FALSE), ok)
    IN [k \in 1..Len(ms) |-> Entity("phone", DigitsOnly(ms[k].group), ms[k], "high")]

find_phone_numbers(t) ==
    LET ok(m) == PhoneAccepted(m.group)
        ms == SelectSeq(finditer(PHONE_PATTERN, t, FALSE), ok)
    IN [k \in 1..Len(ms) |-> Entity("phone", Strip(ms[k].group), ms[k], "high")]

find_email_addresses(t) ==
    LET ms == finditer(EMAIL_PATTERN, t, FALSE)
    IN [k \in 1..Len(ms) |-> Entity("email", ms[k].group, ms[k], "medium")]

\* digits_of(n) for the doubled digit n = d * 2, summed
SumDigitsOf(n) == IF n < 10 THEN n ELSE (n \div 10) + (n % 10)

\* sum(digits[-1::-2]) for the digits of s
RECURSIVE SumOddDigits(_)
SumOddDigits(s) ==
    IF Len(s) = 0 THEN 0
    ELSE DigitVal(At(s, Len(s)))
         + (IF Len(s) <= 2 THEN 0 ELSE SumOddDigits(SubSeq(s, 1, Len(s) - 2)))

\* the loop over digits[-2::-2]: checksum += sum(digits_of(d * 2))
RECURSIVE SumEvenDigits(_)
SumEvenDigits(s) ==
    IF Len(s) <= 1 THEN 0
    ELSE SumDigitsOf(DigitVal(At(s, Len(s) - 1)) * 2)
         + (IF Len(s) <= 3 THEN 0 ELSE SumEvenDigits(SubSeq(s, 1, Len(s) - 2)))

\* a faulty variant: the doubled digits are taken from the left, digits[1::2]
RECURSIVE SumDoubledFromLeft(_)
SumDoubledFromLeft(s) ==
    IF Len(s) <= 1 THEN 0
    ELSE SumDigitsOf(DigitVal(At(s, 2)) * 2) + SumDoubledFromLeft(SubSeq(s, 3, Len(s)))

RECURSIVE SumPlainFromLeft(_)
SumPlainFromLeft(s) ==
    IF Len(s) = 0 THEN 0
    ELSE DigitVal(At(s, 1))
         + (IF Len(s) <= 2 THEN 0 ELSE SumPlainFromLeft(SubSeq(s, 3, Len(s))))

luhn_check_from_left(card_number) ==
    (SumPlainFromLeft(card_number) + SumDoubledFromLeft(card_number)) % 10 = 0

luhn_check(card_number) ==
    (SumOddDigits(card_number) + SumEvenDigits(card_number)) % 10 = 0

CardAccepted(card_num) ==
    LET digits == DigitsOnly(card_num)
    IN Len(digits) >= 13 /\ Len(digits) <= 16 /\ luhn_check(digits)

find_credit_cards(t) ==
    LET ok(m) == CardAccepted(m.group)
        ms == SelectSeq(finditer(CREDIT_CARD_PATTERN, t, FALSE), ok)
    IN [k \in 1..Len(ms) |-> Entity("credit_card", ms[k].group, ms[k], "critical")]

\* date_str.split('/')[-1] if '/' in date_str else date_str.split('-')[-1]
YearField(date_str) ==
    IF Contains(date_str, "/") THEN LastField(date_str, "/") ELSE LastField(date_str, "-")

\* int(...) raises ValueError on a year field that is no integer literal
DobRaises(t) ==
    LET ms == finditer(DOB_PATTERN, t, FALSE)
    IN \E k \in 1..Len(ms) : ~IsIntLiteral(YearField(ms[k].group))

DobAccepted(date_str) ==
    LET year == IntOf(YearField(date_str)) IN 1940 <= year /\ year <= 2015

\* the findings, for a text on which the loop does not raise
find_dates_of_birth(t) ==
    LET ok(m) == DobAccepted(m.group)
        ms == SelectSeq(finditer(DOB_PATTERN, t, FALSE), ok)
    IN [k \in 1..Len(ms) |-> Entity("dob", ms[k].group, ms[k], "medium")]

find_drivers_licenses(t) ==
    LET ms == finditer(DRIVERS_LICENSE_PATTERN, t, FALSE)
    IN [k \in 1..Len(ms) |-> Entity("drivers_license", ms[k].group, ms[k], "high")]

find_zip_codes(t) ==
    LET ms == finditer(ZIP_PATTERN, t, FALSE)
    IN [k \in 1..Len(ms) |-> Entity("zip", ms[k].group, ms[k], "low")]

\* str.split(): the maximal runs of non-blank characters
RECURSIVE SplitWords(_, _)
SplitWords(s, cur) ==
    IF s = "" THEN (IF cur = "" THEN <<>> ELSE <<cur>>)
    ELSE IF Head(s) \in Space
         THEN (IF cur = "" THEN <<>> ELSE <<cur>>) \o SplitWords(Tail(s), "")
         ELSE SplitWords(Tail(s), cur \o Head(s))

split(s) == SplitWords(s, "")

common_words == {"The", "This", "That", "With", "From", "Have", "Been"}

NameAccepted(name) ==
    ~(\E w \in common_words : \E k \in 1..Len(split(name)) : split(name)[k] = w)

find_names_ai_style(t) ==
    LET ok(m) == NameAccepted(m.group)
        ms == SelectSeq(finditer(name_pattern, t, FALSE), ok)
    IN [k \in 1..Len(ms) |-> Entity("name", ms[k].group, ms[k], "medium")]

\* re.finditer(address_pattern, text, re.IGNORECASE)
find_addresses_ai_style(t) ==
    LET ms == finditer(address_pattern, t, TRUE)
    IN [k \in 1..Len(ms) |-> Entity("address", ms[k].group, ms[k], "high")]

----------------------------------------------------------------------------
(* calculate_risk_level                                                    *)

Categories ==
    {"ssn", "credit_card", "drivers_license", "phone", "address",
     "email", "dob", "name", "zip"}

risk_weights ==
    [c \in Categories |->
        CASE c = "ssn" -> 30
          [] c = "credit_card" -> 30
          [] c = "drivers_license" -> 20
          [] c = "phone" -> 15
          [] c = "address" -> 15
          [] c = "email" -> 10
          [] c = "dob" -> 10
          [] c = "name" -> 5
          [] c = "zip" -> 5]

\* the loop: total_score += risk_weights[entity_type] if entity_type in risk_weights
RECURSIVE TotalScore(_)
TotalScore(entities) ==
    IF entities = <<>> THEN 0
    ELSE (IF Head(entities).type \in DOMAIN risk_weights
          THEN risk_weights[Head(entities).type] ELSE 0)
         + TotalScore(Tail(entities))

Min(a, b) == IF a <= b THEN a ELSE b

\* a faulty variant: the thresholds compared with > instead of >=
LevelOfStrict(total_score) ==
    IF total_score > 60 THEN "Critical"
    ELSE IF total_score > 40 THEN "High"
    ELSE IF total_score > 20 THEN "Medium"
    ELSE "Low"

LevelOf(total_score) ==
    IF total_score >= 60 THEN "Critical"
    ELSE IF total_score >= 40 THEN "High"
    ELSE IF total_score >= 20 THEN "Medium"
    ELSE "Low"

\* a faulty variant: no shortcut for the empty list
calculate_risk_level_no_shortcut(entities) ==
    LET total_score == Min(TotalScore(entities), 100)
    IN <<LevelOf(total_score), total_score>>

\* a faulty variant: the cap at 100 left out
calculate_risk_level_unclamped(entities) ==
    IF Len(entities) = 0 THEN <<"Safe", 0>>
    ELSE <<LevelOf(TotalScore(entities)), TotalScore(entities)>>

\* a faulty variant: the score kept under 100 by wrapping around instead of capping
calculate_risk_level_wrapping(entities) ==
    IF Len(entities) = 0 THEN <<"Safe", 0>>
    ELSE LET total_score == TotalScore(entities) % 100
         IN <<LevelOf(total_score), total_score>>

\* <<risk_level, total_score>>
calculate_risk_level(entities) ==
    IF Len(entities) = 0 THEN <<"Safe", 0>>
    ELSE LET total_score == Min(TotalScore(entities), 100)
         IN <<LevelOf(total_score), total_score>>

----------------------------------------------------------------------------
(* mask_sensitive_data and the mask formatters                             *)

\* s[lo:hi] for 0 <= lo, 0 <= hi, clamped to the string as Python clamps
Slice(s, lo, hi) ==
    IF Min(lo, Len(s)) >= Min(hi, Len(s)) THEN ""
    ELSE SubSeq(s, Min(lo, Len(s)) + 1, Min(hi, Len(s)))

\* a faulty variant: s[-3:], one digit more than the masks are to show
LastThree(s) == Slice(s, IF Len(s) > 3 THEN Len(s) - 3 ELSE 0, Len(s))

\* s[-2:]
LastTwo(s) == Slice(s, Len(s) - 2, Len(s))

\* s.split(sep) for a one-character sep, the fields in order
RECURSIVE SplitOn(_, _, _)
SplitOn(s, sep, cur) ==
    IF s = "" THEN <<cur>>
    ELSE IF Head(s) = sep THEN <<cur>> \o SplitOn(Tail(s), sep, "")
    ELSE SplitOn(Tail(s), sep, cur \o Head(s))

mask_email(email) ==
    LET parts == SplitOn(email, "@", "")
    IN IF Len(parts) = 2 /\ Len(parts[1]) > 0
       THEN Head(parts[1]) \o "***" \o "@" \o parts[2]
       ELSE "***@***.com"

mask_phone(phone) ==
    LET digits == DigitsOnly(phone)
    IN IF Len(digits) >= 2
       THEN IF Contains(phone, "(") THEN "(***) ***-**" \o LastTwo(digits)
            ELSE IF Contains(phone, "-") THEN "***-***-**" \o LastTwo(digits)
            ELSE "********" \o LastTwo(digits)
       ELSE "***-***-****"

mask_ssn(ssn) ==
    LET digits == DigitsOnly(ssn)
    IN IF Len(digits) >= 2
       THEN IF Contains(ssn, "-") THEN "***-**-**" \o LastTwo(digits)
            ELSE "*******" \o LastTwo(digits)
       ELSE "***-**-****"

mask_credit_card(card) ==
    LET digits == DigitsOnly(card)
    IN IF Len(digits) >= 2
       THEN IF Contains(card, " ") THEN "**** **** **** **" \o LastTwo(digits)
            ELSE IF Contains(card, "-") THEN "****-****-****-**" \o LastTwo(digits)
            ELSE "**************" \o LastTwo(digits)
       ELSE "****-****-****-****"

\* re.sub(r'\d', 'X', license_num)
RECURSIVE mask_drivers_license(_)
mask_drivers_license(license_num) ==
    IF license_num = "" THEN ""
    ELSE (IF Head(license_num) \in Digit THEN "X" ELSE Head(license_num))
         \o mask_drivers_license(Tail(license_num))

\* ' '.join(word[0] + '***' for word in words)
RECURSIVE JoinMasked(_)
JoinMasked(words) ==
    IF words = <<>> THEN ""
    ELSE Head(Head(words)) \o "***"
         \o (IF Len(words) > 1 THEN " " ELSE "") \o JoinMasked(Tail(words))

mask_name(name) == JoinMasked(split(name))

\* a faulty variant: the zip branch hands the value back as it is
MaskedValueZipKept(entity) ==
    CASE entity.type = "email" -> mask_email(entity.value)
      [] entity.type = "phone" -> mask_phone(entity.value)
      [] entity.type = "ssn" -> mask_ssn(entity.value)
      [] entity.type = "credit_card" -> mask_credit_card(entity.value)
      [] entity.type = "drivers_license" -> mask_drivers_license(entity.value)
      [] entity.type = "name" -> mask_name(entity.value)
      [] entity.type = "address" -> "<ADDRESS>"
      [] entity.type = "zip" -> entity.value
      [] entity.type = "dob" -> "mm/dd/yyyy"
      [] OTHER -> "<REDACTED>"

\* the if/elif chain over entity_type
MaskedValue(entity) ==
    CASE entity.type = "email" -> mask_email(entity.value)
      [] entity.type = "phone" -> mask_phone(entity.value)
      [] entity.type = "ssn" -> mask_ssn(entity.value)
      [] entity.type = "credit_card" -> mask_credit_card(entity.value)
      [] entity.type = "drivers_license" -> mask_drivers_license(entity.value)
      [] entity.type = "name" -> mask_name(entity.value)
      [] entity.type = "address" -> "<ADDRESS>"
      [] entity.type = "zip" -> "<ZIP>"
      [] entity.type = "dob" -> "mm/dd/yyyy"
      [] OTHER -> "<REDACTED>"

\* one step of a stable sort by start, descending: e goes behind every element
\* whose start is not smaller
RECURSIVE InsertByStart(_, _)
InsertByStart(sorted, e) ==
    IF sorted = <<>> THEN <<e>>
    ELSE IF Head(sorted).start >= e.start
         THEN <<Head(sorted)>> \o InsertByStart(Tail(sorted), e)
         ELSE <<e>> \o sorted

\* a faulty variant: reverse=True forgotten, the findings sorted by start ascending
RECURSIVE InsertByStartAsc(_, _)
InsertByStartAsc(sorted, e) ==
    IF sorted = <<>> THEN <<e>>
    ELSE IF Head(sorted).start <= e.start
         THEN <<Head(sorted)>> \o InsertByStartAsc(Tail(sorted), e)
         ELSE <<e>> \o sorted

RECURSIVE SortByStartAsc(_)
SortByStartAsc(entities) ==
    IF entities = <<>> THEN <<>>
    ELSE InsertByStartAsc(SortByStartAsc(SubSeq(entities, 1, Len(entities) - 1)),
                          entities[Len(entities)])

\* sorted(found_entities, key=lambda x: x["start"], reverse=True): stable
RECURSIVE SortByStartDesc(_)
SortByStartDesc(entities) ==
    IF entities = <<>> THEN <<>>
    ELSE InsertByStart(SortByStartDesc(SubSeq(entities, 1, Len(entities) - 1)),
                       entities[Len(entities)])

\* masked_text[:start_pos] + masked_value + masked_text[end_pos:]
ReplaceSpan(working, entity) ==
    Slice(working, 0, entity.start) \o MaskedValue(entity)
        \o Slice(working, entity.end, Len(working))

----------------------------------------------------------------------------
(* The /api/scan handler, scan_content: one request per behaviour.         *)

\* a faulty variant: a zero too many in the limit
max_length_1000k == 1000 * 1024

\* 100 * 1024: "100KB in characters"
max_length == 100 * 1024

\* if len(request.text_content) > max_length: raise HTTPException(400);
\* otherwise scan_text_for_pii is called, with found_entities = []
Validate ==
    /\ pc = "request"
    /\ IF Len(text) + filler > max_length
       THEN pc' = "http400"
       ELSE pc' = "scan_ssn"
    /\ found_entities' = <<>>
    /\ UNCHANGED <<text, filler, risk_level, risk_score, sorted_entities,
                   masked_text, card_valid>>

\* a request with filler is scanned as well; what the scan finds in it is outside
\* the model, which follows only that the call was made
ScanLong ==
    /\ pc = "scan_ssn"
    /\ filler > 0
    /\ pc' = "scan_long"
    /\ UNCHANGED <<text, filler, found_entities, risk_level, risk_score,
                   sorted_entities, masked_text, card_valid>>

Overlaps(e, f) == e.start < f.end /\ f.start < e.end

\* a faulty variant: a finding that overlaps one already in the list is not added
ExtendResolvingOverlaps(here, found, next) ==
    /\ pc = here
    /\ filler = 0
    /\ LET free(f) == \A k \in 1..Len(found_entities) : ~Overlaps(f, found_entities[k])
       IN found_entities' = found_entities \o SelectSeq(found, free)
    /\ pc' = next
    /\ UNCHANGED <<text, filler, risk_level, risk_score, sorted_entities,
                   masked_text, card_valid>>

\* found_entities.extend(found), then on to the next line of scan_text_for_pii
Extend(here, found, next) ==
    /\ pc = here
    /\ filler = 0
    /\ found_entities' = found_entities \o found
    /\ pc' = next
    /\ UNCHANGED <<text, filler, risk_level, risk_score, sorted_entities,
                   masked_text, card_valid>>

ScanSsn == Extend("scan_ssn", find_social_security_numbers(text), "scan_phone")

ScanPhone == Extend("scan_phone", find_phone_numbers(text), "scan_email")

ScanEmail == Extend("scan_email", find_email_addresses(text), "scan_credit_card")

ScanCreditCard == Extend("scan_credit_card", find_credit_cards(text), "scan_dob")

\* find_dates_of_birth either returns its findings or lets int()'s ValueError
\* escape, which ends the request
ScanDob ==
    /\ pc = "scan_dob"
    /\ filler = 0
    /\ IF DobRaises(text)
       THEN /\ pc' = "raised"
            /\ UNCHANGED found_entities
       ELSE /\ pc' = "scan_drivers_license"
            /\ found_entities' = found_entities \o find_dates_of_birth(text)
    /\ UNCHANGED <<text, filler, risk_level, risk_score, sorted_entities,
                   masked_text, card_valid>>

ScanDriversLicense ==
    Extend("scan_drivers_license", find_drivers_licenses(text), "scan_zip")

ScanZip == Extend("scan_zip", find_zip_codes(text), "scan_name")

ScanName == Extend("scan_name", find_names_ai_style(text), "scan_address")

ScanAddress == Extend("scan_address", find_addresses_ai_style(text), "risk")

\* risk_level, risk_score = calculate_risk_level(found_entities)
Risk ==
    /\ pc = "risk"
    /\ risk_level' = calculate_risk_level(found_entities)[1]
    /\ risk_score' = calculate_risk_level(found_entities)[2]
    /\ pc' = "mask_sort"
    /\ UNCHANGED <<text, filler, found_entities, sorted_entities, masked_text,
                   card_valid>>

\* mask_sensitive_data: sorted_entities = sorted(...); masked_text = original_text
MaskSort ==
    /\ pc = "mask_sort"
    /\ sorted_entities' = SortByStartDesc(found_entities)
    /\ masked_text' = text
    /\ pc' = "mask_loop"
    /\ UNCHANGED <<text, filler, found_entities, risk_level, risk_score, card_valid>>

\* one iteration of: for entity in sorted_entities
MaskStep ==
    /\ pc = "mask_loop"
    /\ sorted_entities # <<>>
    /\ masked_text' = ReplaceSpan(masked_text, Head(sorted_entities))
    /\ sorted_entities' = Tail(sorted_entities)
    /\ UNCHANGED <<text, filler, found_entities, risk_level, risk_score,
                   card_valid, pc>>

\* return masked_text
MaskReturn ==
    /\ pc = "mask_loop"
    /\ sorted_entities = <<>>
    /\ pc' = "done"
    /\ UNCHANGED <<text, filler, found_entities, risk_level, risk_score,
                   sorted_entities, masked_text, card_valid>>

----------------------------------------------------------------------------
(* Requests.  A text is up to three phrases in a row, MaxTextLen characters *)
(* at most; the phrases are the formats the recognizers look for, their    *)
(* near misses, and the characters that join or split them.                *)

MaxTextLen == 21

Phrases ==
    {"", " ", "a", "(", "+", "1", "-", "hi",
     "123-45-6789", "000-00-0000", "123456789", "12345-6789",
     "555-123-4567", "(555) 987-6543", "5551234567",
     "j@e.co",
     "4111 1111 1111 1111", "4111 1111 1111 1112", "4111111111111111",
     "03/15/2008", "01/01/1939", "01/02-1990", "1-2-2015",
     "AB1234567", "12345",
     "John Smith", "The Smith",
     "456 Oak Street", "456 oak street", "9 ELM RD"}

Texts ==
    {t \in {a \o b \o c : a \in Phrases, b \in Phrases, c \in Phrases} :
        Len(t) <= MaxTextLen}

\* request sizes at the limits the size check is about, as filler after no text
Fillers == {100000, 100001, 102400, 102401}

Idle ==
    /\ found_entities = <<>>
    /\ risk_level = ""
    /\ risk_score = 0
    /\ sorted_entities = <<>>
    /\ masked_text = ""
    /\ card_valid = FALSE

Init ==
    /\ \/ text \in Texts /\ filler = 0
       \/ text = "" /\ filler \in Fillers
    /\ Idle
    /\ pc = "request"

Next ==
    \/ Validate
    \/ ScanLong
    \/ ScanSsn
    \/ ScanPhone
    \/ ScanEmail
    \/ ScanCreditCard
    \/ ScanDob
    \/ ScanDriversLicense
    \/ ScanZip
    \/ ScanName
    \/ ScanAddress
    \/ Risk
    \/ MaskSort
    \/ MaskStep
    \/ MaskReturn

Spec == Init /\ [][Next]_vars

----------------------------------------------------------------------------
(* calculate_risk_level called on its own, on lists of findings of every   *)
(* category and of a category the weight table does not know.              *)

MaxFindings == 4

\* the severity each recognizer writes into its findings
SeverityOf(type) ==
    CASE type \in {"ssn", "credit_card"} -> "critical"
      [] type \in {"phone", "drivers_license", "address"} -> "high"
      [] type \in {"email", "dob", "name"} -> "medium"
      [] OTHER -> "low"

\* a finding of the given category over text[start:end]
FindingOn(t, type, start, end) ==
    [type |-> type, value |-> Slice(t, start, end), start |-> start, end |-> end,
     risk |-> SeverityOf(type)]

RiskText == "x"

\* the caller lengthens its list by one finding
RiskAppend ==
    /\ pc = "risk_returned"
    /\ Len(found_entities) < MaxFindings
    /\ \E type \in Categories \cup {"other"} :
          found_entities' = Append(found_entities, FindingOn(text, type, 0, 1))
    /\ pc' = "risk_call"
    /\ UNCHANGED <<text, filler, risk_level, risk_score, sorted_entities,
                   masked_text, card_valid>>

\* calculate_risk_level(found_entities)
RiskCall ==
    /\ pc = "risk_call"
    /\ risk_level' = calculate_risk_level(found_entities)[1]
    /\ risk_score' = calculate_risk_level(found_entities)[2]
    /\ pc' = "risk_returned"
    /\ UNCHANGED <<text, filler, found_entities, sorted_entities, masked_text,
                   card_valid>>

InitRisk ==
    /\ text = RiskText
    /\ filler = 0
    /\ Idle
    /\ pc = "risk_call"

NextRisk == RiskAppend \/ RiskCall

SpecRisk == InitRisk /\ [][NextRisk]_vars

----------------------------------------------------------------------------
(* mask_sensitive_data called on its own, on any list of findings with     *)
(* valid offsets into the text, overlapping and repeated ones included.    *)

MaxMaskFindings == 2

MaskTexts == {"a 12", "1-23"}

MaskTypes == {"ssn", "name", "zip"}

ValidFindings(t) ==
    {f \in {FindingOn(t, type, start, end) :
                type \in MaskTypes, start \in 0..Len(t), end \in 0..Len(t)} :
        f.start < f.end}

FindingLists(t) == UNION {[1..n -> ValidFindings(t)] : n \in 0..MaxMaskFindings}

InitMask ==
    /\ text \in MaskTexts
    /\ filler = 0
    /\ found_entities \in FindingLists(text)
    /\ risk_level = ""
    /\ risk_score = 0
    /\ sorted_entities = <<>>
    /\ masked_text = ""
    /\ card_valid = FALSE
    /\ pc = "mask_sort"

NextMask == MaskSort \/ MaskStep \/ MaskReturn

SpecMask == InitMask /\ [][NextMask]_vars

----------------------------------------------------------------------------
(* luhn_check and find_credit_cards called on their own: on every short    *)
(* digit string, and on card candidates of four digit groups.              *)

MaxDigits == 3

RECURSIVE DigitStrings(_)
DigitStrings(n) ==
    IF n = 0 THEN {""}
    ELSE {""} \cup {d \o w : d \in Digit, w \in DigitStrings(n - 1)}

CardGroups == {"4111", "1111", "1112", "0000"}
CardTails  == CardGroups \cup {"111", "000", "113"}
CardSeps   == {<<"", "", "">>, <<" ", " ", " ">>, <<"-", "-", "-">>, <<" ", "-", "">>}

CardCandidates ==
    {a \o sp[1] \o b \o sp[2] \o c \o sp[3] \o d :
        a \in CardGroups, b \in CardGroups, c \in CardGroups,
        d \in CardTails, sp \in CardSeps}

\* digits = re.sub(r'\D', '', card_num); luhn_check(digits)
LuhnCall ==
    /\ pc = "luhn_call"
    /\ card_valid' = luhn_check(DigitsOnly(text))
    /\ pc' = "find_cards"
    /\ UNCHANGED <<text, filler, found_entities, risk_level, risk_score,
                   sorted_entities, masked_text>>

\* find_credit_cards(text)
FindCards ==
    /\ pc = "find_cards"
    /\ found_entities' = find_credit_cards(text)
    /\ pc' = "done"
    /\ UNCHANGED <<text, filler, risk_level, risk_score, sorted_entities,
                   masked_text, card_valid>>

InitCard ==
    /\ text \in DigitStrings(MaxDigits) \cup CardCandidates
    /\ filler = 0
    /\ Idle
    /\ pc = "luhn_call"

NextCard == LuhnCall \/ FindCards

SpecCard == InitCard /\ [][NextCard]_vars

----------------------------------------------------------------------------
(* mask_sensitive_data called with one ssn, phone or credit_card finding   *)
(* that spans the whole text: the text is any short value of digits and    *)
(* the delimiters the formatters look at, so what comes back is that       *)
(* value's mask.                                                           *)

MaxValueLen == 4

ValueChars == {"1", "2", "3", "(", "-", " "}

RECURSIVE ValueStrings(_)
ValueStrings(n) ==
    IF n = 0 THEN {""}
    ELSE {""} \cup {c \o w : c \in ValueChars, w \in ValueStrings(n - 1)}

DigitMaskTypes == {"ssn", "phone", "credit_card"}

InitFormat ==
    /\ text \in ValueStrings(MaxValueLen) \ {""}
    /\ filler = 0
    /\ \E type \in DigitMaskTypes :
          found_entities = <<FindingOn(text, type, 0, Len(text))>>
    /\ risk_level = ""
    /\ risk_score = 0
    /\ sorted_entities = <<>>
    /\ masked_text = ""
    /\ card_valid = FALSE
    /\ pc = "mask_sort"

SpecFormat == InitFormat /\ [][NextMask]_vars

----------------------------------------------------------------------------
(* The claims.                                                             *)

\* C1: every finding scan_text_for_pii has collected satisfies
\* 0 <= start < end <= len(text) and text[start:end] == value; phone findings,
\* whose value is the stripped match, included.
OffsetsCorrect ==
    \A k \in 1..Len(found_entities) :
        LET e == found_entities[k]
        IN /\ 0 <= e.start
           /\ e.start < e.end
           /\ e.end <= Len(text)
           /\ SubSeq(text, e.start + 1, e.end) = e.value

\* a scan has returned a phone finding whose match holds blanks
PhoneFindingReturned ==
    /\ pc = "done"
    /\ \E k \in 1..Len(found_entities) :
          /\ found_entities[k].type = "phone"
          /\ Contains(found_entities[k].value, " ")

\* C2: no recognizer raises on any text: the scan of every request returns.
ScanNeverRaises == pc # "raised"

\* C6: a text whose scan finds a Social Security Number is reported with risk
\* level High or Critical.
SsnIsHighRisk ==
    (pc = "done" /\ \E k \in 1..Len(found_entities) : found_entities[k].type = "ssn")
        => risk_level \in {"High", "Critical"}

\* C8: what scan_text_for_pii returns is the recognizers' outputs one after the
\* other in the order ssn, phone, email, credit_card, dob, drivers_license, zip,
\* name, address: nothing dropped, nothing merged, nothing moved.
ScanIsConcatenation ==
    pc = "risk" =>
        found_entities =
            find_social_security_numbers(text) \o find_phone_numbers(text)
            \o find_email_addresses(text) \o find_credit_cards(text)
            \o find_dates_of_birth(text) \o find_drivers_licenses(text)
            \o find_zip_codes(text) \o find_names_ai_style(text)
            \o find_addresses_ai_style(text)

\* a returned list in which a finding overlaps an earlier-listed finding of
\* another category that starts further right
OverlapKeptOutOfOrder ==
    /\ pc = "risk"
    /\ \E j, k \in 1..Len(found_entities) :
          /\ j < k
          /\ found_entities[j].type # found_entities[k].type
          /\ found_entities[j].start > found_entities[k].start
          /\ found_entities[j].start < found_entities[k].end

\* C9: a text on which the scan finds nothing is answered with (Safe, 0) and
\* with the text itself as masked text.
SafeTextUntouched ==
    (pc = "done" /\ found_entities = <<>>)
        => (risk_level = "Safe" /\ risk_score = 0 /\ masked_text = text)

\* the empty request has been answered
EmptyRequestAnswered == pc = "done" /\ text = "" /\ found_entities = <<>>

\* the weight the claims give each category; 0 for any other
ClaimWeight(type) ==
    CASE type \in {"ssn", "credit_card"} -> 30
      [] type = "drivers_license" -> 20
      [] type \in {"phone", "address"} -> 15
      [] type \in {"email", "dob"} -> 10
      [] type \in {"name", "zip"} -> 5
      [] OTHER -> 0

RECURSIVE ClaimSum(_)
ClaimSum(entities) ==
    IF entities = <<>> THEN 0
    ELSE ClaimWeight(entities[Len(entities)].type)
         + ClaimSum(SubSeq(entities, 1, Len(entities) - 1))

\* C4: the score is the sum of the findings' category weights, 100 at most, and
\* so an integer in [0, 100].
ScoreIsClampedSum ==
    pc = "risk_returned" =>
        /\ risk_score = (IF ClaimSum(found_entities) > 100 THEN 100
                         ELSE ClaimSum(found_entities))
        /\ risk_score \in 0..100

\* a list whose weights sum to more than 100 has been scored
ScoreClamped ==
    pc = "risk_returned" /\ ClaimSum(found_entities) > 100 /\ risk_score = 100

\* C5: the level is Safe, with score 0, exactly for the empty list; a non-empty
\* list of known categories scores at least 5, and is Critical iff score >= 60,
\* High iff 40 <= score < 60, Medium iff 20 <= score < 40, Low iff 0 < score < 20.
LevelMatchesScore ==
    pc = "risk_returned" =>
        /\ (risk_level = "Safe") <=> (found_entities = <<>>)
        /\ found_entities = <<>> => risk_score = 0
        /\ (/\ found_entities # <<>>
            /\ \A k \in 1..Len(found_entities) : found_entities[k].type \in Categories)
           => /\ risk_score >= 5
              /\ (risk_level = "Critical") <=> (risk_score >= 60)
              /\ (risk_level = "High") <=> (40 <= risk_score /\ risk_score < 60)
              /\ (risk_level = "Medium") <=> (20 <= risk_score /\ risk_score < 40)
              /\ (risk_level = "Low") <=> (0 < risk_score /\ risk_score < 20)

\* a list of known categories scoring exactly 60 has been found Critical
CriticalAtSixty ==
    /\ pc = "risk_returned"
    /\ risk_score = 60
    /\ risk_level = "Critical"
    /\ \A k \in 1..Len(found_entities) : found_entities[k].type \in Categories

\* C7: the score of a list with one more finding appended is at least the score
\* of the list, and both lie in [0, 100].  (At a call, risk_score still holds
\* the score of the list before the finding was appended.)
RiskMonotone ==
    [][(pc = "risk_call" /\ pc' = "risk_returned")
           => (risk_score' >= risk_score /\ risk_score \in 0..100
               /\ risk_score' \in 0..100)]_vars

\* a finding has been appended to a list that already scored 90
AppendedPastClamp ==
    /\ pc = "risk_returned"
    /\ Len(found_entities) > 1
    /\ ClaimSum(SubSeq(found_entities, 1, Len(found_entities) - 1)) = 90
    /\ ClaimSum(found_entities) > 100

PairwiseDisjoint(entities) ==
    \A j, k \in 1..Len(entities) :
        j < k => (entities[j].end <= entities[k].start
                  \/ entities[k].end <= entities[j].start)

\* The text from 0-based position i on, read left to right: a span of F is
\* replaced by the mask of its value, any other character is kept.
RECURSIVE ExpectedFrom(_, _, _)
ExpectedFrom(t, F, i) ==
    IF i >= Len(t) THEN ""
    ELSE IF \E f \in F : f.start = i
         THEN LET f == CHOOSE g \in F : g.start = i
              IN MaskedValue(f) \o ExpectedFrom(t, F, f.end)
         ELSE At(t, i + 1) \o ExpectedFrom(t, F, i + 1)

Range(seq) == {seq[k] : k \in 1..Len(seq)}

\* C3: for findings with valid offsets, value == text[start:end] and pairwise
\* disjoint spans, the result is the text with each span replaced by the mask
\* of its value and every other character unchanged and in order, in whatever
\* order the findings are listed.
MaskReplacesSpans ==
    (pc = "done" /\ PairwiseDisjoint(found_entities))
        => masked_text = ExpectedFrom(text, Range(found_entities), 0)

\* two disjoint findings listed left to right have been masked
MaskedListedLeftToRight ==
    /\ pc = "done"
    /\ Len(found_entities) = 2
    /\ found_entities[1].end <= found_entities[2].start
    /\ masked_text # text

\* The reference Luhn sum from the k-th digit from the right on: a digit at an
\* odd position counts as it is, one at an even position doubled, less 9 when
\* the doubled value has two digits.
RECURSIVE RefLuhnSum(_, _)
RefLuhnSum(s, k) ==
    IF k > Len(s) THEN 0
    ELSE LET d == DigitVal(At(s, Len(s) - k + 1))
         IN (IF k % 2 = 1 THEN d ELSE IF 2 * d > 9 THEN 2 * d - 9 ELSE 2 * d)
            + RefLuhnSum(s, k + 1)

RefLuhn(s) == RefLuhnSum(s, 1) % 10 = 0

SameSpan(e, m) == e.start = m.start /\ e.end = m.end

\* C10: luhn_check agrees with the reference Luhn algorithm, and a credit-card
\* pattern match is emitted as a credit_card finding iff its digit string has
\* 13 to 16 digits and passes the reference checksum.
CardEmittedIffLuhn ==
    pc = "done" =>
        LET ms == finditer(CREDIT_CARD_PATTERN, text, FALSE)
        IN /\ card_valid = RefLuhn(DigitsOnly(text))
           /\ \A k \in 1..Len(ms) :
                 (\E j \in 1..Len(found_entities) :
                     /\ found_entities[j].type = "credit_card"
                     /\ found_entities[j].value = ms[k].group
                     /\ SameSpan(found_entities[j], ms[k]))
                 <=> (/\ Len(DigitsOnly(ms[k].group)) \in 13..16
                      /\ RefLuhn(DigitsOnly(ms[k].group)))
           /\ \A j \in 1..Len(found_entities) :
                 \E k \in 1..Len(ms) : SameSpan(found_entities[j], ms[k])

\* a candidate with separators has been accepted
CardAccepted19 ==
    pc = "done" /\ text = "4111 1111 1111 1111" /\ Len(found_entities) = 1

\* the digit characters of s, in order
RECURSIVE DigitsIn(_)
DigitsIn(s) ==
    IF s = "" THEN ""
    ELSE (IF Head(s) \in {"0", "1", "2", "3", "4", "5", "6", "7", "8", "9"}
          THEN Head(s) ELSE "") \o DigitsIn(Tail(s))

HasChar(s, c) == \E i \in 1..Len(s) : SubSeq(s, i, i) = c

\* the asterisk format each category shows in front of the two digits it keeps,
\* by the delimiter style of the value
FormatFor(type, value) ==
    CASE type = "ssn" ->
           IF HasChar(value, "-") THEN "***-**-**" ELSE "*******"
      [] type = "phone" ->
           IF HasChar(value, "(") THEN "(***) ***-**"
           ELSE IF HasChar(value, "-") THEN "***-***-**"
           ELSE "********"
      [] type = "credit_card" ->
           IF HasChar(value, " ") THEN "**** **** **** **"
           ELSE IF HasChar(value, "-") THEN "****-****-****-**"
           ELSE "**************"

FallbackFor(type) ==
    CASE type = "ssn" -> "***-**-****"
      [] type = "phone" -> "***-***-****"
      [] type = "credit_card" -> "****-****-****-****"

\* C11: the mask of an ssn, phone or credit_card value with at least two digits
\* holds exactly two digit characters, the value's last two digits in their
\* order, behind the asterisk format of the value's delimiter style; the mask
\* of a value with fewer than two digits is the category's all-asterisk
\* fallback; no other digit of the value is shown.
MaskDisclosesLastTwo ==
    (pc = "done" /\ Len(found_entities) = 1
        /\ found_entities[1].type \in {"ssn", "phone", "credit_card"}
        /\ found_entities[1].start = 0 /\ found_entities[1].end = Len(text))
    => LET type == found_entities[1].type
           d == DigitsIn(found_entities[1].value)
       IN IF Len(d) >= 2
          THEN /\ DigitsIn(masked_text) = SubSeq(d, Len(d) - 1, Len(d))
               /\ masked_text = FormatFor(type, text) \o SubSeq(d, Len(d) - 1, Len(d))
          ELSE /\ masked_text = FallbackFor(type)
               /\ DigitsIn(masked_text) = ""

\* a phone value in the parenthesis style with three digits has been masked
ParenPhoneMasked ==
    /\ pc = "done"
    /\ text = "(123"
    /\ found_entities[1].type = "phone"
    /\ masked_text = "(***) ***-**23"

\* C12: whenever the scan of a text returns at least one finding, the masked
\* text returned for that text and those findings differs from the text.
MaskingChangesText ==
    (pc = "done" /\ found_entities # <<>>) => masked_text # text

\* a text with an email address and a phone number has been scanned and masked
EmailAndPhoneMasked ==
    /\ pc = "done"
    /\ text = "j@e.co 555-123-4567"
    /\ Len(found_entities) = 2
    /\ masked_text = "j***@e.co ***-***-**67"

\* the size of the request's text
RequestSize == Len(text) + filler

\* the scan of the request has been called
ScanCalled == pc \notin {"request", "http400"}

\* C13, as the specification states it: scan_text_for_pii is never called on a
\* text longer than 100000 characters, and every request whose text is longer
\* than 100000 characters is rejected with HTTP 400 before the scan.
ScanOnlyUpTo100000 ==
    /\ ScanCalled => RequestSize <= 100000
    /\ (pc # "request" /\ RequestSize > 100000) => pc = "http400"

\* C13, amended: scan_text_for_pii is never called on a text longer than
\* 102400 (100 * 1024) characters, and every request whose text is longer than
\* 102400 characters is rejected with HTTP 400 before the scan.
ScanOnlyUpTo102400 ==
    /\ ScanCalled => RequestSize <= 102400
    /\ (pc # "request" /\ RequestSize > 102400) => pc = "http400"

\* a request of 102401 characters has been rejected
OversizeRejected ==
    /\ pc = "http400"
    /\ RequestSize = 102401

\* C14: at every step of the right-to-left replacement loop, for each finding
\* not yet processed, the working string's slice [start, end) still equals
\* text[start:end], for any list of findings with valid offsets, overlapping
\* ones included.
PendingSlicesIntact ==
    pc = "mask_loop" =>
        \A k \in 1..Len(sorted_entities) :
            LET e == sorted_entities[k]
            IN /\ e.end <= Len(masked_text)
               /\ SubSeq(masked_text, e.start + 1, e.end)
                      = SubSeq(text, e.start + 1, e.end)

StreetTypes ==
    {"street", "st", "avenue", "ave", "road", "rd", "drive", "dr", "lane", "ln",
     "boulevard", "blvd", "court", "ct", "way"}

\* s in lower case
RECURSIVE LowerCased(_)
LowerCased(s) ==
    IF s = "" THEN ""
    ELSE (IF Head(s) \in Upper THEN SwapCase(Head(s)) ELSE Head(s))
         \o LowerCased(Tail(s))

AllIn(s, S) == \A i \in 1..Len(s) : SubSeq(s, i, i) \in S

\* one upper-case letter, then lower-case letters
Capitalized(w) ==
    /\ Len(w) >= 2
    /\ SubSeq(w, 1, 1) \in Upper
    /\ AllIn(SubSeq(w, 2, Len(w)), Lower)

\* C15: an address finding is emitted only for a run of digits, whitespace, a
\* Capitalized word, whitespace and a street-type token; only the street-type
\* token is matched without regard to case, so "456 oak street" is not reported.
AddressNameCapitalized ==
    \A k \in 1..Len(found_entities) :
        found_entities[k].type = "address" =>
            LET w == split(found_entities[k].value)
            IN /\ Len(w) = 3
               /\ w[1] # "" /\ AllIn(w[1], Digit)
               /\ Capitalized(w[2])
               /\ LowerCased(w[3]) \in StreetTypes

\* more than one distinct digit in s
SeveralDigits(s) ==
    \E i, j \in 1..Len(s) :
        /\ SubSeq(s, i, i) \in Digit
        /\ SubSeq(s, j, j) \in Digit
        /\ SubSeq(s, i, i) # SubSeq(s, j, j)

\* C16: a match of the SSN pattern is emitted as a finding, of severity
\* critical, if and only if its digits hold more than one distinct digit; ssn
\* findings come from nothing else.
SsnEmittedIffDistinctDigits ==
    pc = "scan_phone" =>
        LET ms == finditer(SSN_PATTERN, text, FALSE)
            emitted(m) ==
                \E k \in 1..Len(found_entities) :
                    /\ found_entities[k].type = "ssn"
                    /\ found_entities[k].risk = "critical"
                    /\ found_entities[k].start = m.start
                    /\ found_entities[k].end = m.end
        IN /\ \A n \in 1..Len(ms) : emitted(ms[n]) <=> SeveralDigits(ms[n].group)
           /\ \A k \in 1..Len(found_entities) :
                 \E n \in 1..Len(ms) :
                    /\ found_entities[k].type = "ssn"
                    /\ found_entities[k].risk = "critical"
                    /\ found_entities[k].start = ms[n].start
                    /\ found_entities[k].end = ms[n].end
                    /\ found_entities[k].value = ms[n].group

\* of two SSN pattern matches in one text, the all-zero one has been rejected
\* and the other one emitted
ZeroSsnRejectedNextToEmitted ==
    /\ pc = "scan_phone"
    /\ text = "000-00-0000 123456789"
    /\ Len(found_entities) = 1
    /\ found_entities[1].start = 12
    /\ found_entities[1].value = "123456789"

\* t holds the phone number "(555) 987-6543" on its own from the 0-based
\* offset i: at the start of t or after whitespace, no word character behind it
ParenPhoneAt(t, i) ==
    /\ i + 14 <= Len(t)
    /\ SubSeq(t, i + 1, i + 14) = "(555) 987-6543"
    /\ i = 0 \/ SubSeq(t, i, i) \in Space
    /\ i + 14 = Len(t) \/ SubSeq(t, i + 15, i + 15) \notin Word

ShowsAt(t, w) == \E j \in 0..Len(t) - Len(w) : SubSeq(t, j + 1, j + Len(w)) = w

\* C17: a phone number in the format "(AAA) EEE-LLLL" at the start of the text
\* or after whitespace is detected as a phone finding whose value is the whole
\* "(AAA) EEE-LLLL", the opening parenthesis included, and the masked text
\* shows it as "(***) ***-**LL".
ParenPhoneDetectedWhole ==
    pc = "done" =>
        \A i \in 0..Len(text) :
            ParenPhoneAt(text, i) =>
                /\ \E k \in 1..Len(found_entities) :
                      /\ found_entities[k].type = "phone"
                      /\ found_entities[k].value = "(555) 987-6543"
                      /\ found_entities[k].start = i
                      /\ found_entities[k].end = i + 14
                /\ ShowsAt(masked_text, "(***) ***-**43")

\* the 0-based offset i lies inside the span of a finding
Covered(i) ==
    \E k \in 1..Len(found_entities) :
        found_entities[k].start <= i /\ i < found_entities[k].end

\* the end of the run of covered offsets that i lies in
RECURSIVE RunEnd(_)
RunEnd(i) == IF i < Len(text) /\ Covered(i) THEN RunEnd(i + 1) ELSE i

\* m is what has to stand for text[i:]: the characters outside every span as
\* they are, and one or more masks of its findings for each run of covered
\* offsets
RECURSIVE KeepsOutside(_, _), MasksOnly(_, _, _, _)
KeepsOutside(m, i) ==
    IF i >= Len(text) THEN m = ""
    ELSE IF ~Covered(i)
    THEN /\ m # ""
         /\ Head(m) = SubSeq(text, i + 1, i + 1)
         /\ KeepsOutside(Tail(m), i + 1)
    ELSE MasksOnly(m, i, RunEnd(i), Len(found_entities))

MasksOnly(m, i, c, n) ==
    /\ n > 0
    /\ \E k \in 1..Len(found_entities) :
          LET e == found_entities[k]
              mask == MaskedValue(e)
          IN /\ i <= e.start /\ e.end <= c
             /\ Len(mask) <= Len(m)
             /\ SubSeq(m, 1, Len(mask)) = mask
             /\ LET rest == SubSeq(m, Len(mask) + 1, Len(m))
                IN KeepsOutside(rest, c) \/ MasksOnly(rest, i, c, n - 1)

\* C18: the text masked with the findings of its own scan keeps every
\* character outside all finding spans, unchanged and in order, and puts
\* nothing but mask strings between them, also when findings overlap or
\* start at the same offset.
MaskKeepsTextOutsideSpans ==
    pc = "done" => KeepsOutside(masked_text, 0)

=============================================================================
